---- MODULE Spec2Model ----
(***************************************************************************)
(* Model of clip_server's preprocessing and ranking helpers:               *)
(*   - Tokenizer.__call__ / Tokenizer._tokenize  (model/tokenization.py)   *)
(*   - set_rank, numpy_softmax, preproc_image    (executors/helper.py)     *)
(* Each of the three operations has its own specification (SpecTokenizer,  *)
(* SpecRank, SpecImage); the variables of the other two stay idle.         *)
(***************************************************************************)
EXTENDS Integers, Sequences, FiniteSets, TLC

VARIABLES
    \* Tokenizer
    name,            \* self._name, reduced to the model family it belongs to
    texts,           \* the list of input strings
    context_length,  \* the context_length argument of __call__
    truncate,        \* the truncate argument of __call__
    all_tokens,      \* default family: [sot] + encode(text) + [eot] per text
    tok_i,           \* default family: index of the row the loop is at
    input_ids,       \* result['input_ids']
    attention_mask,  \* result['attention_mask']
    tpc,             \* position of the call: call, loop, returned, raised, idle
    \* set_rank
    docs,            \* the queries with their matches
    docs0,           \* the argument as it was passed (history)
    cosine_scores,   \* the Q x C matrix
    start_idx,       \* start of the current query's column block
    rank_q,          \* index of the query the loop is at
    rpc,             \* position of the call
    \* preproc_image
    da,              \* the documents
    da0,             \* the argument as it was passed (history)
    drop_image_content,
    tensors_batch,   \* the list stacked into 'pixel_values'
    img_d,           \* index of the document the loop is at
    ipc              \* position of the call

tokVars  == <<name, texts, context_length, truncate, all_tokens, tok_i,
              input_ids, attention_mask, tpc>>
rankVars == <<docs, docs0, cosine_scores, start_idx, rank_q, rpc>>
imgVars  == <<da, da0, drop_image_content, tensors_batch, img_d, ipc>>
vars     == <<tokVars, rankVars, imgVars>>

----------------------------------------------------------------------------
\* Bounds of the model

MaxTextLen == 3      \* longest short text, in characters
LongTextLen == 51    \* length of the one long text (over CN-CLIP's 50)
MaxBatch == 2        \* texts per call
MaxContext == 4      \* largest context_length argument

----------------------------------------------------------------------------
\* Generic helpers

Min(a, b) == IF a < b THEN a ELSE b

Take(s, n) == SubSeq(s, 1, Min(n, Len(s)))

Zeros(n) == [j \in 1..n |-> 0]

SeqsUpTo(S, n) == UNION {[1..k -> S] : k \in 0..n}

----------------------------------------------------------------------------
\* Tokenizer

Families == {"multilingual", "cnclip", "default"}

Chars == {"a", "!"}

LongText == [k \in 1..LongTextLen |-> "a"]

Texts == SeqsUpTo(Chars, MaxTextLen) \cup {LongText}

\* SimpleTokenizer.encode: one vocabulary id per character ('!' is id 0)
encode(text) == [k \in 1..Len(text) |-> IF text[k] = "!" THEN 0 ELSE 320]

sot_token == 49406
eot_token == 49407

\* transformers tokenizer (XLM-R vocabulary): <s>, </s>, <pad>
hf_bos == 0
hf_eos == 2
hf_pad == 1

hf_encode(text) == [k \in 1..Len(text) |-> IF text[k] = "!" THEN 38 ELSE 10]

\* one text under truncation=True, max_length=L: specials kept, body cut
hf_row(text, L) == <<hf_bos>> \o Take(hf_encode(text), L - 2) \o <<hf_eos>>

MaxLen(rows) ==
    IF Len(rows) = 0 THEN 0
    ELSE CHOOSE m \in {Len(rows[r]) : r \in 1..Len(rows)} :
            \A r \in 1..Len(rows) : Len(rows[r]) <= m

\* self._tokenizer(texts, max_length=L, padding=True, truncation=True):
\* padding=True pads to the longest row of the batch
hf_tokenize(txts, L) ==
    LET rows == [r \in 1..Len(txts) |-> hf_row(txts[r], L)]
        w    == MaxLen(rows)
    IN [input_ids |->
            [r \in 1..Len(txts) |->
                [j \in 1..w |-> IF j <= Len(rows[r]) THEN rows[r][j] ELSE hf_pad]],
        attention_mask |->
            [r \in 1..Len(txts) |->
                [j \in 1..w |-> IF j <= Len(rows[r]) THEN 1 ELSE 0]]]

\* cn_clip.clip.tokenize(texts, context_length): [CLS] + ids[:L-2] + [SEP],
\* zero padded to L
cn_cls == 101
cn_sep == 102
cn_context_length == 52

cn_encode(text) == [k \in 1..Len(text) |-> IF text[k] = "!" THEN 106 ELSE 143]

cn_tokenize(txts, L) ==
    [r \in 1..Len(txts) |->
        LET row == <<cn_cls>> \o Take(cn_encode(txts[r]), L - 2) \o <<cn_sep>>
        IN [j \in 1..L |-> IF j <= Len(row) THEN row[j] ELSE 0]]

\* attn_mask = result.clone(); attn_mask[result != 0] = 1
cn_attn_mask(result) ==
    [r \in 1..Len(result) |->
        [j \in 1..Len(result[r]) |-> IF result[r][j] # 0 THEN 1 ELSE result[r][j]]]

TokInit ==
    /\ name \in Families
    /\ texts \in (SeqsUpTo(Texts, MaxBatch) \ {<<>>})
    /\ context_length \in 0..MaxContext
    \* the transformers tokenizer needs room for its two special tokens
    /\ (name = "multilingual" => context_length >= 2)
    /\ truncate \in BOOLEAN
    /\ all_tokens = <<>>
    /\ tok_i = 0
    /\ input_ids = <<>>
    /\ attention_mask = <<>>
    /\ tpc = "call"
    \* set_rank and preproc_image are not called
    /\ docs = <<>>
    /\ docs0 = <<>>
    /\ cosine_scores = <<>>
    /\ start_idx = 0
    /\ rank_q = 0
    /\ rpc = "idle"
    /\ da = <<>>
    /\ da0 = <<>>
    /\ drop_image_content = FALSE
    /\ tensors_batch = <<>>
    /\ img_d = 0
    /\ ipc = "idle"

\* __call__ -> _tokenize, multilingual branch
TokenizeMultilingual ==
    /\ tpc = "call"
    /\ name = "multilingual"
    /\ LET result == hf_tokenize(texts, context_length)
       IN /\ input_ids' = result.input_ids
          /\ attention_mask' = result.attention_mask
    /\ tpc' = "returned"
    /\ UNCHANGED <<name, texts, context_length, truncate, all_tokens, tok_i>>
    /\ UNCHANGED <<rankVars, imgVars>>

\* __call__ -> _tokenize(texts, context_length=52), Chinese CLIP branch
TokenizeCnclip ==
    /\ tpc = "call"
    /\ name = "cnclip"
    /\ LET result == cn_tokenize(texts, cn_context_length)
       IN /\ input_ids' = result
          /\ attention_mask' = cn_attn_mask(result)
    /\ tpc' = "returned"
    /\ UNCHANGED <<name, texts, context_length, truncate, all_tokens, tok_i>>
    /\ UNCHANGED <<rankVars, imgVars>>

\* __call__ -> _tokenize, default branch up to the loop
TokenizeDefault ==
    /\ tpc = "call"
    /\ name = "default"
    /\ all_tokens' = [r \in 1..Len(texts) |->
                         <<sot_token>> \o encode(texts[r]) \o <<eot_token>>]
    /\ input_ids' = [r \in 1..Len(texts) |-> Zeros(context_length)]
    /\ attention_mask' = [r \in 1..Len(texts) |-> Zeros(context_length)]
    /\ tok_i' = 1
    /\ tpc' = "loop"
    /\ UNCHANGED <<name, texts, context_length, truncate>>
    /\ UNCHANGED <<rankVars, imgVars>>

C4_TruncateWithoutEot(tokens, L) == Take(tokens, L)

\* tokens = tokens[:context_length]; tokens[-1] = eot_token
TruncateTokens(tokens, L) ==
    LET cut == Take(tokens, L)
    IN [cut EXCEPT ![Len(cut)] = eot_token]

\* input_ids[i, :len(tokens)] = torch.tensor(tokens)
StoreRow(row, tokens) ==
    [j \in 1..Len(row) |-> IF j <= Len(tokens) THEN tokens[j] ELSE row[j]]

C6_MarkWholeRow(row, tokens) == [j \in 1..Len(row) |-> 1]

\* attention_mask[i, :len(tokens)] = 1
MarkRow(row, tokens) ==
    [j \in 1..Len(row) |-> IF j <= Len(tokens) THEN 1 ELSE row[j]]

\* one iteration of the loop over all_tokens
TokenizeRow ==
    /\ tpc = "loop"
    /\ tok_i <= Len(all_tokens)
    /\ LET tokens == all_tokens[tok_i]
           over   == Len(tokens) > context_length
       IN IF over /\ ~truncate
          THEN \* raise RuntimeError
               /\ tpc' = "raised"
               /\ UNCHANGED <<input_ids, attention_mask, tok_i>>
          ELSE IF over /\ context_length = 0
          THEN \* tokens[-1] of the empty list: IndexError
               /\ tpc' = "raised"
               /\ UNCHANGED <<input_ids, attention_mask, tok_i>>
          ELSE LET toks == IF over THEN TruncateTokens(tokens, context_length)
                                   ELSE tokens
               IN /\ input_ids' = [input_ids EXCEPT
                                      ![tok_i] = StoreRow(@, toks)]
                  /\ attention_mask' = [attention_mask EXCEPT
                                           ![tok_i] = MarkRow(@, toks)]
                  /\ tok_i' = tok_i + 1
                  /\ tpc' = tpc
    /\ UNCHANGED <<name, texts, context_length, truncate, all_tokens>>
    /\ UNCHANGED <<rankVars, imgVars>>

\* return {'input_ids': input_ids, 'attention_mask': attention_mask}
TokenizeReturn ==
    /\ tpc = "loop"
    /\ tok_i > Len(all_tokens)
    /\ tpc' = "returned"
    /\ UNCHANGED <<name, texts, context_length, truncate, all_tokens, tok_i,
                   input_ids, attention_mask>>
    /\ UNCHANGED <<rankVars, imgVars>>

TokNext ==
    \/ TokenizeMultilingual
    \/ TokenizeCnclip
    \/ TokenizeDefault
    \/ TokenizeRow
    \/ TokenizeReturn

----------------------------------------------------------------------------
\* set_rank

MaxQueries == 2      \* queries per call
MaxMatches == 3      \* matches per query

\* unit-norm embeddings, so that the cosine is the dot product exactly
QueryEmbeddings == {<<1, 0>>, <<0, 1>>}
CandidateEmbeddings == {<<1, 0>>, <<0, 1>>, <<-1, 0>>}

NoScores == [n \in {} |-> 0]

\* the matches of the q-th query: ids name the query and the position
MatchLists(q) ==
    UNION {{[k \in 1..n |-> [id |-> <<q, k>>, embedding |-> e[k],
                             scores |-> NoScores]] :
               e \in [1..n -> CandidateEmbeddings]} : n \in 0..MaxMatches}

Queries(q) ==
    {[embedding |-> e, matches |-> m] : e \in QueryEmbeddings, m \in MatchLists(q)}

DocArrays ==
    UNION {{d \in [1..n -> UNION {Queries(q) : q \in 1..n}] :
               \A q \in 1..n : d[q] \in Queries(q)} : n \in 1..MaxQueries}

RECURSIVE SumSeq(_)
SumSeq(s) == IF Len(s) = 0 THEN 0 ELSE s[1] + SumSeq(Tail(s))

RECURSIVE MaxSeq(_)
MaxSeq(s) == IF Len(s) = 1 THEN s[1]
             ELSE LET m == MaxSeq(Tail(s)) IN IF s[1] > m THEN s[1] ELSE m

RECURSIVE Flatten(_)
Flatten(ss) == IF Len(ss) = 0 THEN <<>> ELSE ss[1] \o Flatten(Tail(ss))

\* docs['@m']: the matches of all queries, in query order
Candidates(d) == Flatten([q \in 1..Len(d) |-> d[q].matches])

Dot(x, y) == x[1] * y[1] + x[2] * y[2]

\* docarray.math.distance.numpy.cosine on unit vectors: 1 - x.y
cosine(x_mat, y_mat) ==
    [i \in 1..Len(x_mat) |-> [j \in 1..Len(y_mat) |-> 1 - Dot(x_mat[i], y_mat[j])]]

\* cosine_scores = 1 - cosine(query_embeddings, candidate_embeddings)
CosineScores(d) ==
    LET query_embeddings == [q \in 1..Len(d) |-> d[q].embedding]
        cands == Candidates(d)
        candidate_embeddings == [c \in 1..Len(cands) |-> cands[c].embedding]
        dist == cosine(query_embeddings, candidate_embeddings)
    IN [i \in 1..Len(dist) |-> [j \in 1..Len(dist[i]) |-> 1 - dist[i][j]]]

\* _logit_scale = np.exp(4.60517)
logit_scale == 100

\* np.exp on the grid of logits that occur (non-positive multiples of
\* logit_scale down to -2 * logit_scale): positive and strictly increasing;
\* the common factor cancels in e_x / div
exp(x) ==
    LET steps == (x + 2 * logit_scale) \div logit_scale
    IN IF steps = 0 THEN 1 ELSE IF steps = 1 THEN 2 ELSE 4

\* numpy_softmax: every value is the fraction e_x[k] / div
numpy_softmax(x) ==
    LET max == MaxSeq(x)
        e_x == [k \in 1..Len(x) |-> exp(x[k] - max)]
        div == SumSeq(e_x)
    IN [k \in 1..Len(x) |-> [num |-> e_x[k], den |-> div]]

\* a >= b on fractions with positive denominators
FracGeq(a, b) == a.num * b.den >= b.num * a.den

ClipScore(m) == m.scores["clip_score"].value

C5_CosinesFromZero(row, start, end) == SubSeq(row, 1, end - start)

\* _cosine_scores[start_idx:end_idx]
CandidateCosines(row, start, end) == SubSeq(row, start + 1, end)

\* insert m behind every element that sorts before it or ties with it
InsertDesc(s, m) ==
    LET ahead == {k \in 0..Len(s) :
                     \A j \in 1..k : FracGeq(ClipScore(s[j]), ClipScore(m))}
        pos   == CHOOSE k \in ahead : \A k2 \in ahead : k2 <= k
    IN SubSeq(s, 1, pos) \o <<m>> \o SubSeq(s, pos + 1, Len(s))

RECURSIVE SortedFrom(_, _)
SortedFrom(acc, rest) ==
    IF Len(rest) = 0 THEN acc
    ELSE SortedFrom(InsertDesc(acc, rest[1]), Tail(rest))

C2_SortedAscending(ms) ==
    LET d == SortedFrom(<<>>, ms)
    IN [k \in 1..Len(d) |-> d[Len(d) + 1 - k]]

\* sorted(_candidates, key=clip_score, reverse=True): stable, descending
SortedByClipScore(ms) == SortedFrom(<<>>, ms)

\* the scores written on the k-th candidate of a query
Scored(m, c_score, s_score) ==
    [m EXCEPT !.scores =
        [n \in {"clip_score", "clip_score_cosine"} |->
            IF n = "clip_score"
            THEN [value |-> s_score, op_name |-> "softmax"]
            ELSE [value |-> c_score, op_name |-> "cosine"]]]

RankInit ==
    /\ docs \in DocArrays
    /\ docs0 = docs
    /\ cosine_scores = <<>>
    /\ start_idx = 0
    /\ rank_q = 0
    /\ rpc = "call"
    \* the tokenizer and preproc_image are not called
    /\ name = "default"
    /\ texts = <<>>
    /\ context_length = 0
    /\ truncate = TRUE
    /\ all_tokens = <<>>
    /\ tok_i = 0
    /\ input_ids = <<>>
    /\ attention_mask = <<>>
    /\ tpc = "idle"
    /\ da = <<>>
    /\ da0 = <<>>
    /\ drop_image_content = FALSE
    /\ tensors_batch = <<>>
    /\ img_d = 0
    /\ ipc = "idle"

\* set_rank up to the loop
SetRankStart ==
    /\ rpc = "call"
    /\ IF Len(Candidates(docs)) = 0
       THEN \* no candidate embeddings to compare with: cosine() raises
            /\ rpc' = "raised"
            /\ UNCHANGED <<cosine_scores, start_idx, rank_q>>
       ELSE /\ cosine_scores' = CosineScores(docs)
            /\ start_idx' = 0
            /\ rank_q' = 1
            /\ rpc' = "loop"
    /\ UNCHANGED <<docs, docs0>>
    /\ UNCHANGED <<tokVars, imgVars>>

\* one iteration of the loop over zip(docs, cosine_scores)
SetRankQuery ==
    /\ rpc = "loop"
    /\ rank_q <= Len(docs)
    /\ LET candidates == docs[rank_q].matches
           end_idx == start_idx + Len(candidates)
           candidate_cosines ==
               CandidateCosines(cosine_scores[rank_q], start_idx, end_idx)
       IN IF Len(candidate_cosines) = 0
          THEN \* np.max of an empty array raises ValueError
               /\ rpc' = "raised"
               /\ UNCHANGED <<docs, start_idx, rank_q>>
          ELSE LET candidate_softmaxs ==
                       numpy_softmax([k \in 1..Len(candidate_cosines) |->
                                         logit_scale * candidate_cosines[k]])
                   \* zip() stops at the shortest of the three
                   n == Min(Len(candidates), Len(candidate_cosines))
                   scored == [k \in 1..Len(candidates) |->
                                 IF k <= n
                                 THEN Scored(candidates[k], candidate_cosines[k],
                                             candidate_softmaxs[k])
                                 ELSE candidates[k]]
                   \* _candidates.embeddings = None
                   stripped == [k \in 1..Len(scored) |->
                                   [scored[k] EXCEPT !.embedding = <<>>]]
               IN /\ docs' = [docs EXCEPT ![rank_q].matches =
                                              SortedByClipScore(stripped)]
                  /\ start_idx' = end_idx
                  /\ rank_q' = rank_q + 1
                  /\ rpc' = rpc
    /\ UNCHANGED <<docs0, cosine_scores>>
    /\ UNCHANGED <<tokVars, imgVars>>

SetRankReturn ==
    /\ rpc = "loop"
    /\ rank_q > Len(docs)
    /\ rpc' = "returned"
    /\ UNCHANGED <<docs, docs0, cosine_scores, start_idx, rank_q>>
    /\ UNCHANGED <<tokVars, imgVars>>

RankNext ==
    \/ SetRankStart
    \/ SetRankQuery
    \/ SetRankReturn

----------------------------------------------------------------------------
\* preproc_image

MaxDocs == 2         \* documents per call

None == <<>>

TensorValues == {<<"T1">>, <<"T2">>}
BlobValues == {<<"B1">>, <<"B2">>}
UriValues == {<<"U1">>, <<"U2">>}

\* image documents as split_img_txt_da collects them: no text, and a blob,
\* a tensor or a uri; docarray keeps blob and tensor mutually exclusive
ImageDocs(i) ==
    {d \in [id : {i}, tensor : TensorValues \cup {None},
            blob : BlobValues \cup {None}, uri : UriValues \cup {None}] :
        /\ ~(d.tensor # None /\ d.blob # None)
        /\ (d.tensor # None \/ d.blob # None \/ d.uri # None)}

ImageArrays ==
    UNION {{a \in [1..n -> UNION {ImageDocs(i) : i \in 1..n}] :
               \A i \in 1..n : a[i] \in ImageDocs(i)} : n \in 1..MaxDocs}

\* Document.content_type
content_type(d) ==
    IF d.tensor # None THEN "tensor"
    ELSE IF d.blob # None THEN "blob"
    ELSE "none"

\* Document.content (getter): the value of the content field, with its kind
content(d) ==
    IF content_type(d) = "tensor" THEN [kind |-> "tensor", value |-> d.tensor]
    ELSE IF content_type(d) = "blob" THEN [kind |-> "blob", value |-> d.blob]
    ELSE [kind |-> "none", value |-> None]

\* Document.convert_image_tensor_to_blob: the blob replaces the tensor
convert_image_tensor_to_blob(d) ==
    [d EXCEPT !.blob = <<"png">> \o d.tensor, !.tensor = None]

\* Document.load_uri_to_blob: the blob is the file behind the uri
load_uri_to_blob(d) ==
    [d EXCEPT !.blob = <<"file">> \o d.uri, !.tensor = None]

\* preprocess_fn(d.blob)
preprocess_fn(blob) == <<"pixels">> \o blob

\* lines 35-39: make sure the document holds a blob
EnsureBlob(d) ==
    IF d.tensor # None THEN convert_image_tensor_to_blob(d)
    ELSE IF content_type(d) # "blob" /\ d.uri # None THEN load_uri_to_blob(d)
    ELSE d

C7_KeepBlob(d, c) == d

\* d.content = content (setter): bytes go to blob, arrays to tensor, None
\* clears both; setting a content field clears the other
RecoverContent(d, c) ==
    IF c.kind = "tensor" THEN [d EXCEPT !.tensor = c.value, !.blob = None]
    ELSE IF c.kind = "blob" THEN [d EXCEPT !.blob = c.value, !.tensor = None]
    ELSE [d EXCEPT !.tensor = None, !.blob = None]

\* d.pop('blob', 'tensor')
PopContent(d) == [d EXCEPT !.blob = None, !.tensor = None]

ImgInit ==
    /\ da \in ImageArrays
    /\ da0 = da
    /\ drop_image_content \in BOOLEAN
    /\ tensors_batch = <<>>
    /\ img_d = 1
    /\ ipc = "loop"
    \* the tokenizer and set_rank are not called
    /\ name = "default"
    /\ texts = <<>>
    /\ context_length = 0
    /\ truncate = TRUE
    /\ all_tokens = <<>>
    /\ tok_i = 0
    /\ input_ids = <<>>
    /\ attention_mask = <<>>
    /\ tpc = "idle"
    /\ docs = <<>>
    /\ docs0 = <<>>
    /\ cosine_scores = <<>>
    /\ start_idx = 0
    /\ rank_q = 0
    /\ rpc = "idle"

\* one iteration of the loop over da
PreprocImageDoc ==
    /\ ipc = "loop"
    /\ img_d <= Len(da)
    /\ LET d == da[img_d]
           saved == content(d)
           withBlob == EnsureBlob(d)
           recovered == RecoverContent(withBlob, saved)
       IN /\ tensors_batch' = Append(tensors_batch, preprocess_fn(withBlob.blob))
          /\ da' = [da EXCEPT ![img_d] =
                       IF drop_image_content THEN PopContent(recovered)
                       ELSE recovered]
    /\ img_d' = img_d + 1
    /\ UNCHANGED <<da0, drop_image_content, ipc>>
    /\ UNCHANGED <<tokVars, rankVars>>

\* torch.stack(tensors_batch); return da, {'pixel_values': tensors_batch}
PreprocImageReturn ==
    /\ ipc = "loop"
    /\ img_d > Len(da)
    /\ ipc' = "returned"
    /\ UNCHANGED <<da, da0, drop_image_content, tensors_batch, img_d>>
    /\ UNCHANGED <<tokVars, rankVars>>

ImgNext ==
    \/ PreprocImageDoc
    \/ PreprocImageReturn

----------------------------------------------------------------------------
\* Specifications, one per operation

SpecTokenizer == TokInit /\ [][TokNext]_vars

SpecRank == RankInit /\ [][RankNext]_vars

SpecImage == ImgInit /\ [][ImgNext]_vars

----------------------------------------------------------------------------
\* Properties

\* the context length a family tokenizes with
EffectiveContext == IF name = "cnclip" THEN cn_context_length ELSE context_length

\* length of the full encoding of the r-th text, special tokens included
EncodingLen(r) == Len(texts[r]) + 2

\* C1: for every model family, a returned result has one row per text and
\* every row of input_ids and of attention_mask has exactly context_length
\* entries (the context_length argument of the call).
C1_FixedShape ==
    tpc = "returned" =>
        /\ Len(input_ids) = Len(texts)
        /\ Len(attention_mask) = Len(texts)
        /\ \A r \in 1..Len(texts) :
              /\ Len(input_ids[r]) = context_length
              /\ Len(attention_mask[r]) = context_length

\* C3: for every model family, a call with truncate=False on a batch that
\* holds a text whose encoding is longer than the context length does not
\* return a result.
C3_NoTruncationWhenForbidden ==
    (/\ ~truncate
     /\ \E r \in 1..Len(texts) : EncodingLen(r) > EffectiveContext)
        => tpc # "returned"

\* the token sequence of the r-th text in the default family
DefaultTokens(r) == <<sot_token>> \o encode(texts[r]) \o <<eot_token>>

\* C4: default family, truncate=True, context_length L >= 2: a stored row of
\* a text with more than L tokens holds the first L-1 tokens of the sequence
\* (the start-of-text token first) and then the end-of-text token; a text with
\* at most L tokens is stored as it is.
C4_TruncationKeepsEot ==
    (name = "default" /\ truncate /\ context_length >= 2
        /\ tpc \in {"loop", "returned"})
    => \A r \in 1..(tok_i - 1) :
          LET seq == DefaultTokens(r)
              L   == context_length
          IN /\ Len(input_ids[r]) = L
             /\ IF Len(seq) > L
                THEN /\ \A j \in 1..(L - 1) : input_ids[r][j] = seq[j]
                     /\ input_ids[r][1] = sot_token
                     /\ input_ids[r][L] = eot_token
                ELSE \A j \in 1..Len(seq) : input_ids[r][j] = seq[j]

C4_Witness ==
    /\ name = "default" /\ truncate /\ context_length >= 2
    /\ tpc = "returned"
    /\ \E r \in 1..Len(texts) :
          /\ Len(DefaultTokens(r)) > context_length
          /\ input_ids[r][context_length] = eot_token
          /\ DefaultTokens(r)[context_length] # eot_token
    /\ \E r \in 1..Len(texts) : Len(DefaultTokens(r)) <= context_length

Ones(row) == Cardinality({j \in 1..Len(row) : row[j] = 1})

\* C6: default family, every returned row: attention_mask is 1 exactly on the
\* first min(len(tokens), context_length) positions and 0 elsewhere, input_ids
\* is 0 wherever the mask is 0, and with context_length >= 2 the number of
\* ones is between 2 and context_length.
C6_MaskMarksTokens ==
    (name = "default" /\ tpc = "returned")
    => \A r \in 1..Len(texts) :
          LET n == Min(Len(DefaultTokens(r)), context_length)
          IN /\ Len(attention_mask[r]) = context_length
             /\ \A j \in 1..context_length :
                   /\ attention_mask[r][j] = (IF j <= n THEN 1 ELSE 0)
                   /\ (attention_mask[r][j] = 0 => input_ids[r][j] = 0)
             /\ (context_length >= 2 =>
                    /\ Ones(attention_mask[r]) >= 2
                    /\ Ones(attention_mask[r]) <= context_length)

C6_Witness ==
    /\ name = "default" /\ tpc = "returned" /\ context_length >= 2
    /\ \E r \in 1..Len(texts) : Ones(attention_mask[r]) < context_length
    /\ \E r \in 1..Len(texts) :
          /\ Ones(attention_mask[r]) = context_length
          /\ Len(DefaultTokens(r)) > context_length
    /\ \E r \in 1..Len(texts) : \E j \in 1..context_length :
          attention_mask[r][j] = 1 /\ input_ids[r][j] = 0

\* C2: after set_rank returns, the matches of every query are in
\* non-increasing order of clip_score.
C2_MatchesSortedDescending ==
    rpc = "returned" =>
        \A q \in 1..Len(docs) :
            \A k \in 1..(Len(docs[q].matches) - 1) :
                FracGeq(ClipScore(docs[q].matches[k]),
                        ClipScore(docs[q].matches[k + 1]))

MatchIds(ms) == [k \in 1..Len(ms) |-> ms[k].id]

C2_Witness ==
    /\ rpc = "returned"
    /\ \E q \in 1..Len(docs) :
          /\ MatchIds(docs[q].matches) # MatchIds(docs0[q].matches)
          /\ \E k \in 1..(Len(docs[q].matches) - 1) :
                ~FracGeq(ClipScore(docs[q].matches[k + 1]),
                         ClipScore(docs[q].matches[k]))

\* number of candidates that belong to the queries before the q-th
BlockStart(q) == SumSeq([p \in 1..(q - 1) |-> Len(docs0[p].matches)])

\* C5: the flat candidate list is the concatenation of the queries' matches in
\* query order; at the q-th query start_idx is the number of matches of the
\* queries before it, and at the end it is the number of candidates; the k-th
\* match of a processed query q carries cosine_scores[q][start_idx + k], which
\* is the cosine of the query's own embedding with that match's own embedding.
C5_OwnColumnBlock ==
    rpc \in {"loop", "returned"} =>
        /\ Len(cosine_scores) = Len(docs0)
        /\ \A q \in 1..Len(docs0) :
              Len(cosine_scores[q]) = Len(Candidates(docs0))
        /\ \A q \in 1..Len(docs0) : \A k \in 1..Len(docs0[q].matches) :
              Candidates(docs0)[BlockStart(q) + k].id = <<q, k>>
        /\ start_idx = BlockStart(rank_q)
        /\ (rpc = "returned" => start_idx = Len(Candidates(docs0)))
        /\ \A q \in 1..(rank_q - 1) :
              /\ Len(docs[q].matches) = Len(docs0[q].matches)
              /\ \A j \in 1..Len(docs[q].matches) :
                    LET m == docs[q].matches[j]
                        k == m.id[2]
                    IN /\ m.id[1] = q
                       /\ m.scores["clip_score_cosine"].value
                             = cosine_scores[q][BlockStart(q) + k]
                       /\ m.scores["clip_score_cosine"].value
                             = Dot(docs0[q].embedding,
                                   docs0[q].matches[k].embedding)

C5_Witness ==
    /\ rpc = "returned"
    /\ Len(docs) >= 2
    /\ Len(docs[1].matches) >= 1
    /\ \E j \in 1..Len(docs[2].matches) :
          LET m == docs[2].matches[j]
          IN m.scores["clip_score_cosine"].value # cosine_scores[2][m.id[2]]

\* the blob preproc_image hands to preprocess_fn for a document
ExpectedBlob(d) ==
    IF d.tensor # None THEN <<"png">> \o d.tensor
    ELSE IF d.blob # None THEN d.blob
    ELSE <<"file">> \o d.uri

\* C7: after preproc_image returns, tensors_batch holds one preprocessed tensor
\* per document in document order; the documents are the input ones in the
\* same order; with drop_image_content=False every document's tensor, blob and
\* uri are what they were before the call; with drop_image_content=True no
\* document has a blob or a tensor.
C7_BatchAndRecoveredContent ==
    ipc = "returned" =>
        /\ Len(tensors_batch) = Len(da0)
        /\ \A i \in 1..Len(da0) :
              tensors_batch[i] = <<"pixels">> \o ExpectedBlob(da0[i])
        /\ Len(da) = Len(da0)
        /\ \A i \in 1..Len(da0) : da[i].id = da0[i].id /\ da[i].uri = da0[i].uri
        /\ (~drop_image_content => da = da0)
        /\ (drop_image_content =>
               \A i \in 1..Len(da) : da[i].blob = None /\ da[i].tensor = None)

C7_Witness ==
    /\ ipc = "returned"
    /\ ~drop_image_content
    /\ Len(da) >= 2
    /\ \E i \in 1..Len(da) : da[i].tensor # None
    /\ \E i \in 1..Len(da) : da[i].tensor = None /\ da[i].blob = None
    /\ tensors_batch[1] # tensors_batch[2]

====
